---- MODULE Spec2Model ----
(***************************************************************************)
(* Model of congkit (src/src/lib.rs): the Cangjie code table CongkitDB,    *)
(* its construction from a text table or a binary artifact, and its        *)
(* queries.  Text is a sequence of one-character strings; a char of the    *)
(* table ('我', '日', ...) is written as an ASCII name.                    *)
(***************************************************************************)
EXTENDS Integers, Sequences, FiniteSets, TLC

VARIABLES src, call, db, res

vars == <<src, call, db, res>>

(* ------------------------------ bounds --------------------------------- *)

\* most records (lines of a text table, entries of a binary artifact)
MaxLines == 2

\* most patterns in one get_chars_mult call
MaxPatterns == 2

(* ------------------------- str helpers (std) --------------------------- *)

\* all sequences over S of length at most n
RECURSIVE SeqsUpTo(_, _)
SeqsUpTo(S, n) ==
    IF n = 0 THEN {<<>>}
    ELSE LET shorter == SeqsUpTo(S, n - 1)
         IN  shorter \cup {Append(s, x) : s \in {t \in shorter : Len(t) = n - 1}, x \in S}

\* str::split(sep): the pieces between the separators, empty pieces kept
RECURSIVE Split(_, _)
Split(s, sep) ==
    LET hits == {i \in 1..Len(s) : s[i] = sep}
    IN  IF hits = {} THEN <<s>>
        ELSE LET i == CHOOSE k \in hits : \A j \in hits : k <= j
             IN  <<SubSeq(s, 1, i - 1)>> \o Split(SubSeq(s, i + 1, Len(s)), sep)

\* the text whose pieces under split(sep) are the given ones
RECURSIVE Join(_, _)
Join(pieces, sep) ==
    IF Len(pieces) = 0 THEN <<>>
    ELSE IF Len(pieces) = 1 THEN pieces[1]
    ELSE pieces[1] \o <<sep>> \o Join(Tail(pieces), sep)

\* str::replace('*', ".+")
RECURSIVE ReplaceStar(_)
ReplaceStar(s) ==
    IF s = <<>> THEN <<>>
    ELSE (IF Head(s) = "*" THEN <<".", "+">> ELSE <<Head(s)>>) \o ReplaceStar(Tail(s))

Digits == {"0", "1", "2", "3", "4", "5", "6", "7", "8", "9"}

DigitVal(d) ==
    CASE d = "0" -> 0 [] d = "1" -> 1 [] d = "2" -> 2 [] d = "3" -> 3 [] d = "4" -> 4
      [] d = "5" -> 5 [] d = "6" -> 6 [] d = "7" -> 7 [] d = "8" -> 8 [] d = "9" -> 9

\* i32::MAX
I32Max == 2147483647

RECURSIVE DecVal(_)
DecVal(ds) == IF ds = <<>> THEN 0 ELSE 10 * DecVal(SubSeq(ds, 1, Len(ds) - 1)) + DigitVal(ds[Len(ds)])

\* str::parse::<i32>(): an optional sign, then one or more decimal digits,
\* the value within the range of i32
ParseI32(s) ==
    LET signed == Len(s) > 0 /\ s[1] \in {"+", "-"}
        ds     == IF signed THEN Tail(s) ELSE s
        wellformed == Len(ds) > 0 /\ \A i \in 1..Len(ds) : ds[i] \in Digits
        v      == IF signed /\ s[1] = "-" THEN 0 - DecVal(ds) ELSE DecVal(ds)
    IN  IF wellformed /\ v >= (0 - I32Max) - 1 /\ v <= I32Max
        THEN [ok |-> TRUE, val |-> v]
        ELSE [ok |-> FALSE, val |-> 0]

(* --------------------------- CongkitFilter ----------------------------- *)

Flags == {"chinese", "big5", "hkscs", "taiwanese", "kanji", "hiragana",
          "katakana", "punctuation", "misc"}

\* all() with the kanji flag left out
FilterAllButKanji == [f \in Flags |-> f # "kanji"]

\* CongkitFilter::all()
FilterAll == [f \in Flags |-> TRUE]

\* CongkitFilter::chinese(), the default
FilterChinese == [f \in Flags |-> f \in {"chinese", "big5", "hkscs", "taiwanese"}]

\* CongkitFilter::japanese()
FilterJapanese == [f \in Flags |-> f \in {"kanji", "hiragana", "katakana"}]

\* the custom filter of examples/trim_table.rs
FilterTrimmed == [f \in Flags |-> f \in {"big5", "hkscs"}]

Filters == {FilterAll, FilterChinese, FilterJapanese, FilterTrimmed}

Versions == {"V3", "V5"}

\* a filter that admits every entry
ApplyFiltersAdmitAll(entry, filter) == TRUE

\* apply_filters: some flag of the entry is set together with the filter's
ApplyFilters(entry, filter) ==
    \/ (entry.chinese /\ filter.chinese)
    \/ (entry.big5 /\ filter.big5)
    \/ (entry.hkscs /\ filter.hkscs)
    \/ (entry.taiwanese /\ filter.taiwanese)
    \/ (entry.kanji /\ filter.kanji)
    \/ (entry.hiragana /\ filter.hiragana)
    \/ (entry.katakana /\ filter.katakana)
    \/ (entry.punctuation /\ filter.punctuation)
    \/ (entry.misc /\ filter.misc)

(* ------------------------------ to_entries ----------------------------- *)

\* the line is skipped: line.starts_with("# ") || line.is_empty()
Skipped(line) ==
    \/ Len(line) >= 2 /\ line[1] = "#" /\ line[2] = " "
    \/ line = <<>>

\* some unwrap() of the closure of to_entries panics on these fields
LinePanics(fields) ==
    \/ fields[1] = <<>>                        \* chars().nth(0).unwrap()
    \/ Len(fields) < 2 \/ fields[2] = <<>>     \* get(1).unwrap().chars().nth(0).unwrap()
    \/ Len(fields) < 15                        \* get(2) .. get(14) .unwrap()
    \/ ~ParseI32(fields[15]).ok                \* parse().unwrap()

MkEntry(fields) ==
    [traditional |-> fields[1][1],
     simplified  |-> fields[2][1],
     chinese     |-> fields[3] = <<"1">>,
     big5        |-> fields[4] = <<"1">>,
     hkscs       |-> fields[5] = <<"1">>,
     taiwanese   |-> fields[6] = <<"1">>,
     kanji       |-> fields[7] = <<"1">>,
     hiragana    |-> fields[8] = <<"1">>,
     katakana    |-> fields[9] = <<"1">>,
     punctuation |-> fields[10] = <<"1">>,
     misc        |-> fields[11] = <<"1">>,
     v3          |-> fields[12],
     v5          |-> fields[13],
     code        |-> <<>>,
     shortcut    |-> fields[14],
     order       |-> ParseI32(fields[15]).val]

\* Iterator::filter over a Vec, order kept
RECURSIVE SelectEntries(_, _)
SelectEntries(es, filter) ==
    IF es = <<>> THEN <<>>
    ELSE (IF ApplyFilters(Head(es), filter) THEN <<Head(es)>> ELSE <<>>)
         \o SelectEntries(Tail(es), filter)

\* to_entries: [panic |-> TRUE] when an unwrap() fails on some line that is
\* not skipped (the map runs on every such line, before the filter)
ToEntries(txt, filter) ==
    LET lines  == SelectSeq(Split(txt, "\n"), LAMBDA l : ~Skipped(l))
        fields == [i \in 1..Len(lines) |-> Split(lines[i], " ")]
    IN  IF \E i \in 1..Len(lines) : LinePanics(fields[i])
        THEN [panic |-> TRUE, entries |-> <<>>]
        ELSE [panic |-> FALSE,
              entries |-> SelectEntries([i \in 1..Len(lines) |-> MkEntry(fields[i])], filter)]

(* ------------------------- binary artifact ----------------------------- *)

\* the fields of Entry in declaration order
EntryFields == <<"traditional", "simplified", "chinese", "big5", "hkscs", "taiwanese",
                 "kanji", "hiragana", "katakana", "punctuation", "misc",
                 "v3", "v5", "code", "shortcut", "order">>

\* bitcode::encode(&Vec<Entry>), abstracted to: the number of entries, then
\* the fields of each entry in declaration order
RECURSIVE Encode(_)
Encode(es) ==
    IF es = <<>> THEN <<0>>
    ELSE LET init == Encode(SubSeq(es, 1, Len(es) - 1))
             e    == es[Len(es)]
         IN  <<init[1] + 1>> \o Tail(init) \o [i \in 1..Len(EntryFields) |-> e[EntryFields[i]]]

\* bitcode::decode::<Vec<Entry>>(data): an error unless the data holds the
\* announced number of entries exactly
Decode(data) ==
    LET w == Len(EntryFields)
    IN  IF data = <<>> \/ Len(data) # 1 + w * data[1]
        THEN [ok |-> FALSE, entries |-> <<>>]
        ELSE [ok |-> TRUE,
              entries |-> [n \in 1..data[1] |->
                  [f \in {EntryFields[i] : i \in 1..w} |->
                      data[1 + w * (n - 1) + CHOOSE i \in 1..w : EntryFields[i] = f]]]]

(* ------------------------------ CongkitDB ------------------------------ *)

\* the pairs (radical, key) of Default for CongkitDB, radicals by code point
RadicalPairsTwoA ==
    << <<"U65E5", "a">>, <<"U6708", "a">>, <<"U91D1", "c">>, <<"U6728", "d">>,
       <<"U6C34", "e">>, <<"U706B", "f">>, <<"U571F", "g">>, <<"U7AF9", "h">>,
       <<"U6208", "i">>, <<"U5341", "j">>, <<"U5927", "k">>, <<"U4E2D", "l">>,
       <<"U4E00", "m">>, <<"U5F13", "n">>, <<"U4EBA", "o">>, <<"U5FC3", "p">>,
       <<"U624B", "q">>, <<"U53E3", "r">>, <<"U5C38", "s">>, <<"U5EFF", "t">>,
       <<"U5C71", "u">>, <<"U5973", "v">>, <<"U7530", "w">>, <<"U96E3", "x">>,
       <<"U535C", "y">> >>

RadicalPairs ==
    << <<"U65E5", "a">>, <<"U6708", "b">>, <<"U91D1", "c">>, <<"U6728", "d">>,
       <<"U6C34", "e">>, <<"U706B", "f">>, <<"U571F", "g">>, <<"U7AF9", "h">>,
       <<"U6208", "i">>, <<"U5341", "j">>, <<"U5927", "k">>, <<"U4E2D", "l">>,
       <<"U4E00", "m">>, <<"U5F13", "n">>, <<"U4EBA", "o">>, <<"U5FC3", "p">>,
       <<"U624B", "q">>, <<"U53E3", "r">>, <<"U5C38", "s">>, <<"U5EFF", "t">>,
       <<"U5C71", "u">>, <<"U5973", "v">>, <<"U7530", "w">>, <<"U96E3", "x">>,
       <<"U535C", "y">> >>

\* BiMap::from_iter: each pair inserted in turn, a pair that shares its left
\* or its right value with the new one being dropped
RECURSIVE BiMapFromIter(_)
BiMapFromIter(pairs) ==
    IF pairs = <<>> THEN {}
    ELSE LET p == pairs[Len(pairs)]
             m == BiMapFromIter(SubSeq(pairs, 1, Len(pairs) - 1))
         IN  {q \in m : q[1] # p[1] /\ q[2] # p[2]} \cup {p}

\* Option<T>: None, Some(x)
None == <<>>

Some(x) == <<x>>

\* Default for CongkitDB
DefaultDB ==
    [entries  |-> <<>>,
     version  |-> "V3",
     radicals |-> BiMapFromIter(RadicalPairs)]

\* collect::<HashMap<char, Entry>>() with the first entry of a key kept
RECURSIVE CollectFirstWins(_, _)
CollectFirstWins(entry_vec, version) ==
    IF entry_vec = <<>> THEN <<>>
    ELSE LET e == Head(entry_vec)
             bound == [e EXCEPT !.code = IF version = "V3" THEN e.v3 ELSE e.v5]
         IN  (e.traditional :> bound) @@ CollectFirstWins(Tail(entry_vec), version)

\* the version's code is not bound: v3 is taken whatever the version
RECURSIVE CollectV3Only(_, _)
CollectV3Only(entry_vec, version) ==
    IF entry_vec = <<>> THEN <<>>
    ELSE LET e == entry_vec[Len(entry_vec)]
             bound == [e EXCEPT !.code = e.v3]
         IN  (e.traditional :> bound)
             @@ CollectV3Only(SubSeq(entry_vec, 1, Len(entry_vec) - 1), version)

\* from_entry_vec, the map: each entry gets its code from v3 or v5 and is
\* inserted under its traditional char, a later insert replacing an earlier
RECURSIVE Collect(_, _)
Collect(entry_vec, version) ==
    IF entry_vec = <<>> THEN <<>>
    ELSE LET e == entry_vec[Len(entry_vec)]
             bound == [e EXCEPT !.code = IF version = "V3" THEN e.v3 ELSE e.v5]
         IN  (e.traditional :> bound)
             @@ Collect(SubSeq(entry_vec, 1, Len(entry_vec) - 1), version)

\* from_entry_vec
FromEntryVec(entry_vec, version) ==
    [DefaultDB EXCEPT !.entries = Collect(entry_vec, version), !.version = version]

\* from_txt: panics where to_entries does
FromTxt(txt, version, filter) ==
    LET r == ToEntries(txt, filter)
    IN  IF r.panic THEN [state |-> "panic"]
        ELSE [state |-> "built", table |-> FromEntryVec(r.entries, version)]

\* from_data
FromData(data, version, filter) ==
    LET r == Decode(data)
    IN  IF ~r.ok THEN [state |-> "error"]
        ELSE [state |-> "built",
              table |-> FromEntryVec(SelectEntries(r.entries, filter), version)]

(* -------------------------------- regex -------------------------------- *)

\* Regex::new on the syntax the patterns of this model reach: literal
\* chars, '.', a postfix '+', the anchors '^' and '$', and '(' which opens
\* a group that nothing closes, a syntax error
RegexNew(text) ==
    [ok |-> \A i \in 1..Len(text) : text[i] # "(", re |-> text]

\* the atom (a literal char or '.') matches the char; '.' matches any char
\* but the line feed
AtomMatches(atom, ch) == IF atom = "." THEN ch # "\n" ELSE atom = ch

\* the regex body (anchors removed) matches the whole of s
RECURSIVE MatchWhole(_, _)
MatchWhole(body, s) ==
    IF body = <<>> THEN s = <<>>
    ELSE IF Len(body) >= 2 /\ body[2] = "+"
    THEN \E k \in 1..Len(s) :
            /\ \A i \in 1..k : AtomMatches(body[1], s[i])
            /\ MatchWhole(SubSeq(body, 3, Len(body)), SubSeq(s, k + 1, Len(s)))
    ELSE /\ s # <<>>
         /\ AtomMatches(body[1], s[1])
         /\ MatchWhole(Tail(body), Tail(s))

\* Regex::is_match for a regex "^body$"
IsMatch(re, s) == MatchWhole(SubSeq(re.re, 2, Len(re.re) - 1), s)

\* Regex::new(&format!("^{}$", code.replace('*', ".+")))
Compile(code) == RegexNew(<<"^">> \o ReplaceStar(code) \o <<"$">>)

(* ------------------------------- queries ------------------------------- *)

\* get_radical: BiMap::get_by_right
GetRadical(t, key) ==
    IF \E p \in t.radicals : p[2] = key
    THEN Some((CHOOSE p \in t.radicals : p[2] = key)[1])
    ELSE None

\* get_key: BiMap::get_by_left
GetKey(t, radical) ==
    IF \E p \in t.radicals : p[1] = radical
    THEN Some((CHOOSE p \in t.radicals : p[1] = radical)[2])
    ELSE None

\* get_code
GetCode(t, character) ==
    IF character \in DOMAIN t.entries THEN Some(t.entries[character].code) ELSE None

\* self.entries.values(): the entries in the iteration order of the HashMap
Values(t, iter) == [i \in 1..Len(iter) |-> t.entries[iter[i]]]

\* the sorted entries with e put in, after the entries that do not sort
\* after it (sort_by is stable)
InsertByOrder(sorted, e) ==
    LET n == Cardinality({i \in 1..Len(sorted) : sorted[i].order <= e.order})
    IN  SubSeq(sorted, 1, n) \o <<e>> \o SubSeq(sorted, n + 1, Len(sorted))

\* a sort by descending order
RECURSIVE SortDescending(_)
SortDescending(es) ==
    IF es = <<>> THEN <<>>
    ELSE LET sorted == SortDescending(SubSeq(es, 1, Len(es) - 1))
             e == es[Len(es)]
             n == Cardinality({i \in 1..Len(sorted) : sorted[i].order >= e.order})
         IN  SubSeq(sorted, 1, n) \o <<e>> \o SubSeq(sorted, n + 1, Len(sorted))

\* sort_by(|a, b| a.order.cmp(&b.order))
RECURSIVE SortByOrder(_)
SortByOrder(es) ==
    IF es = <<>> THEN <<>>
    ELSE InsertByOrder(SortByOrder(SubSeq(es, 1, Len(es) - 1)), es[Len(es)])

Traditionals(es) == [i \in 1..Len(es) |-> es[i].traditional]

\* get_characters
GetCharacters(t, iter, code) ==
    LET re == Compile(code)
    IN  IF ~re.ok THEN [err |-> TRUE, out |-> <<>>]
        ELSE LET filt == SelectSeq(Values(t, iter), LAMBDA entry : IsMatch(re, entry.code))
             IN  [err |-> FALSE, out |-> Traditionals(SortByOrder(filt))]

\* get_chars_mult, first loop: chars and regexes get a slot per code, the
\* `?` leaving the function at the first code that does not compile
RECURSIVE CompileAll(_)
CompileAll(codes) ==
    IF codes = <<>> THEN [ok |-> TRUE, chars |-> <<>>, regexes |-> <<>>]
    ELSE LET c    == codes[Len(codes)]
             init == CompileAll(SubSeq(codes, 1, Len(codes) - 1))
             re   == Compile(c)
         IN  IF ~init.ok \/ ~re.ok THEN [ok |-> FALSE, chars |-> <<>>, regexes |-> <<>>]
             ELSE [ok      |-> TRUE,
                   chars   |-> (c :> <<>>) @@ init.chars,
                   regexes |-> (c :> re) @@ init.regexes]

\* the scan that stops at the first regex an entry matches
RECURSIVE ScanFirstMatch(_, _, _)
ScanFirstMatch(vals, regexes, chars) ==
    IF vals = <<>> THEN chars
    ELSE LET ent  == Head(vals)
             hits == {code \in DOMAIN regexes : IsMatch(regexes[code], ent.code)}
             one  == IF hits = {} THEN {} ELSE {CHOOSE code \in hits : TRUE}
         IN  ScanFirstMatch(Tail(vals), regexes,
                 [code \in DOMAIN chars |->
                     IF code \in one THEN Append(chars[code], ent) ELSE chars[code]])

\* get_chars_mult, second loop: each entry is pushed to the list of every
\* code whose regex it matches
RECURSIVE Scan(_, _, _)
Scan(vals, regexes, chars) ==
    IF vals = <<>> THEN chars
    ELSE LET ent == Head(vals)
         IN  Scan(Tail(vals), regexes,
                 [code \in DOMAIN chars |->
                     IF IsMatch(regexes[code], ent.code)
                     THEN Append(chars[code], ent) ELSE chars[code]])

\* get_chars_mult that compiles a code only when the scan reaches it: the
\* valid codes are answered, and the entries are examined, before the error
GetCharsMultLazy(t, iter, codes) ==
    LET valid == SelectSeq(codes, LAMBDA c : Compile(c).ok)
        c     == CompileAll(valid)
        chars == Scan(Values(t, iter), c.regexes, c.chars)
    IN  [err      |-> valid # codes,
         out      |-> [code \in DOMAIN chars |-> Traditionals(SortByOrder(chars[code]))],
         examined |-> Len(iter)]

\* get_chars_mult; examined counts the entries the second loop visited
GetCharsMult(t, iter, codes) ==
    LET c == CompileAll(codes)
    IN  IF ~c.ok THEN [err |-> TRUE, out |-> <<>>, examined |-> 0]
        ELSE LET chars == Scan(Values(t, iter), c.regexes, c.chars)
             IN  [err      |-> FALSE,
                  out      |-> [code \in DOMAIN chars |-> Traditionals(SortByOrder(chars[code]))],
                  examined |-> Len(iter)]

(* ------------------------------- inputs -------------------------------- *)

Flag9(set) == [i \in 1..9 |-> IF i \in set THEN <<"1">> ELSE <<"0">>]

\* X, chinese, v3 "ab", v5 "a", order 2
LineA == Join(<< <<"X">>, <<"x">> >> \o Flag9({1}) \o << <<"a", "b">>, <<"a">>, <<"s">>, <<"2">> >>, " ")

\* Y, big5, v3 "ab", v5 "b", order -1
LineB == Join(<< <<"Y">>, <<"y">> >> \o Flag9({2}) \o << <<"a", "b">>, <<"b">>, <<"s">>, <<"-", "1">> >>, " ")

\* X again, kanji, v3 "a", v5 "ab", order 1
LineC == Join(<< <<"X">>, <<"x">> >> \o Flag9({5}) \o << <<"a">>, <<"a", "b">>, <<"s">>, <<"1">> >>, " ")

\* W, no flag at all, order 3
LineD == Join(<< <<"W">>, <<"w">> >> \o Flag9({}) \o << <<"b">>, <<"b">>, <<"s">>, <<"3">> >>, " ")

\* V, chinese and hiragana, order 2, and a 16th field
LineLong == Join(<< <<"V">>, <<"v">> >> \o Flag9({1, 6}) \o << <<"b">>, <<"a", "b">>, <<"s">>, <<"2">>, <<"x">> >>, " ")

\* 14 fields: the order is missing
LineShort == Join(<< <<"Y">>, <<"y">> >> \o Flag9({1}) \o << <<"a">>, <<"a">>, <<"s">> >>, " ")

\* 15 fields, the order not a number
LineBadInt == Join(<< <<"Y">>, <<"y">> >> \o Flag9({1}) \o << <<"a">>, <<"a">>, <<"s">>, <<"1", "x">> >>, " ")

\* 15 fields, the traditional field empty
LineNoChar == Join(<< <<>>, <<"y">> >> \o Flag9({1}) \o << <<"a">>, <<"a">>, <<"s">>, <<"1">> >>, " ")

LinePool == {LineA, LineB, LineC, LineD, LineLong, LineShort, LineBadInt, LineNoChar}

\* a table file: a comment line, the record lines, each line ended by "\n"
TextOf(lines) == <<"#", " ", "c", "\n">> \o Join(lines, "\n") \o <<"\n">>

TxtSources == {[kind |-> "txt", bytes |-> TextOf(ls)] : ls \in SeqsUpTo(LinePool, MaxLines)}

EntryPool == {MkEntry(Split(l, " ")) : l \in {LineA, LineC, LineD}}

\* artifacts: encoded entry lists, whole or cut short by one value
DataSources ==
    LET blobs == {Encode(es) : es \in SeqsUpTo(EntryPool, MaxLines)}
    IN  {[kind |-> "data", bytes |-> b] : b \in blobs}
        \cup {[kind |-> "data", bytes |-> SubSeq(b, 1, Len(b) - 1)] : b \in blobs}

CharPool == {"X", "Y", "V", "W", "Q"}

PatternPool == {<<"a", "*">>, <<"*">>, <<".", "b">>, <<"(">>}

KeyPool == {"a", "y", "z"}

RadicalPool == {"U65E5", "U535C", "X"}

\* the orders a HashMap may iterate its keys in
Orders(keys) ==
    {it \in [1..Cardinality(keys) -> keys] : \A i, j \in DOMAIN it : it[i] = it[j] => i = j}

(* ----------------------------- state machine --------------------------- *)

Init ==
    /\ src \in TxtSources \cup DataSources
    /\ call = <<>>
    /\ db = [state |-> "none"]
    /\ res = [op |-> "none"]

Built == db.state = "built"

\* the caller is between two calls: the last result has been taken
Idle == res.op = "none"

\* the table as built, with an iteration order of its HashMap
Installed(r) ==
    IF r.state = "built"
    THEN {[state |-> "built", table |-> r.table, iter |-> it] :
             it \in Orders(DOMAIN r.table.entries)}
    ELSE {r}

FromTxtCall ==
    /\ src.kind = "txt"
    /\ db.state = "none"
    /\ \E version \in Versions, filter \in Filters :
        /\ call' = [version |-> version, filter |-> filter]
        /\ db' \in Installed(FromTxt(src.bytes, version, filter))
    /\ res' = [op |-> "from_txt"]
    /\ UNCHANGED src

FromDataCall ==
    /\ src.kind = "data"
    /\ db.state = "none"
    /\ \E version \in Versions, filter \in Filters :
        /\ call' = [version |-> version, filter |-> filter]
        /\ db' \in Installed(FromData(src.bytes, version, filter))
    /\ res' = [op |-> "from_data"]
    /\ UNCHANGED src

GetCodeCall ==
    /\ Built
    /\ Idle
    /\ \E c \in CharPool :
        res' = [op |-> "get_code", arg |-> c, ret |-> GetCode(db.table, c)]
    /\ UNCHANGED <<src, call, db>>

GetCharactersCall ==
    /\ Built
    /\ Idle
    /\ \E code \in PatternPool :
        res' = [op |-> "get_characters", arg |-> code,
                ret |-> GetCharacters(db.table, db.iter, code)]
    /\ UNCHANGED <<src, call, db>>

GetCharsMultCall ==
    /\ Built
    /\ Idle
    /\ \E codes \in SeqsUpTo(PatternPool, MaxPatterns) :
        res' = [op |-> "get_chars_mult", arg |-> codes,
                ret |-> GetCharsMult(db.table, db.iter, codes)]
    /\ UNCHANGED <<src, call, db>>

GetRadicalCall ==
    /\ Built
    /\ Idle
    /\ \E key \in KeyPool :
        res' = [op |-> "get_radical", arg |-> key, ret |-> GetRadical(db.table, key)]
    /\ UNCHANGED <<src, call, db>>

GetKeyCall ==
    /\ Built
    /\ Idle
    /\ \E radical \in RadicalPool :
        res' = [op |-> "get_key", arg |-> radical, ret |-> GetKey(db.table, radical)]
    /\ UNCHANGED <<src, call, db>>

\* the caller takes the result of the call; the next call may follow
Return ==
    /\ ~Idle
    /\ res' = [op |-> "none"]
    /\ UNCHANGED <<src, call, db>>

Next ==
    \/ FromTxtCall
    \/ FromDataCall
    \/ GetCodeCall
    \/ GetCharactersCall
    \/ GetCharsMultCall
    \/ GetRadicalCall
    \/ GetKeyCall
    \/ Return

Spec == Init /\ [][Next]_vars

(* ------------------------------- claims -------------------------------- *)

Range(f) == {f[x] : x \in DOMAIN f}

Keys == DOMAIN db.table.entries

\* the entries the builder hands to from_entry_vec for this source and call
Retained ==
    IF src.kind = "txt" THEN ToEntries(src.bytes, call.filter).entries
    ELSE SelectEntries(Decode(src.bytes).entries, call.filter)

\* C1: every entry of a built table has one of its nine flags set together
\* with the same flag of the filter the table was built with; an entry with
\* no flag set is never in a table
C1_EntriesPassFilter ==
    Built =>
        \A c \in Keys :
            LET e == db.table.entries[c]
            IN  /\ \E f \in Flags : e[f] /\ call.filter[f]
                /\ \E f \in Flags : e[f]

\* a table built from an artifact that holds an entry without any flag and
\* an entry the filter admits
C1_Witness ==
    /\ Built
    /\ src.kind = "data"
    /\ Keys # {}
    /\ \E i \in 1..Len(Decode(src.bytes).entries) :
           \A f \in Flags : ~Decode(src.bytes).entries[i][f]

\* C2: for a list of valid patterns get_chars_mult succeeds, its keys are the
\* patterns of the list, and under each pattern it holds the sequence
\* get_characters returns for that pattern on the same table
C2_BatchEquivalence ==
    (/\ res.op = "get_chars_mult"
     /\ \A i \in 1..Len(res.arg) : Compile(res.arg[i]).ok)
    => /\ ~res.ret.err
       /\ DOMAIN res.ret.out = Range(res.arg)
       /\ \A p \in Range(res.arg) :
              LET one == GetCharacters(db.table, db.iter, p)
              IN  ~one.err /\ res.ret.out[p] = one.out

\* a batch that repeats a pattern, on a table where two entries of equal
\* order match it
C2_Witness ==
    /\ res.op = "get_chars_mult"
    /\ res.arg = << <<"*">>, <<"*">> >>
    /\ ~res.ret.err
    /\ \E c, d \in Keys :
          /\ c # d
          /\ db.table.entries[c].order = db.table.entries[d].order
          /\ {c, d} \subseteq Range(res.ret.out[<<"*">>])

\* the pattern as the claim reads it: '*' stands for one or more chars, any
\* other char for itself
RECURSIVE GlobMatch(_, _)
GlobMatch(pattern, code) ==
    IF pattern = <<>> THEN code = <<>>
    ELSE IF Head(pattern) = "*"
    THEN \E k \in 1..Len(code) : GlobMatch(Tail(pattern), SubSeq(code, k + 1, Len(code)))
    ELSE /\ code # <<>>
         /\ Head(pattern) = Head(code)
         /\ GlobMatch(Tail(pattern), Tail(code))

\* C3: get_characters matches an entry iff its code fits the pattern with
\* every char but '*' standing for itself and '*' for one or more chars
C3_StarIsTheOnlyWildcard ==
    (res.op = "get_characters" /\ ~res.ret.err)
    => Range(res.ret.out) = {c \in Keys : GlobMatch(res.arg, db.table.entries[c].code)}

\* C4: for a valid pattern get_characters returns, without an error, the
\* traditional chars of exactly the entries whose code the pattern's regex
\* matches, each once, the order values never decreasing along the result
C4_MatchesSortedByOrder ==
    (res.op = "get_characters" /\ Compile(res.arg).ok)
    => LET out == res.ret.out
       IN  /\ ~res.ret.err
           /\ Range(out) = {c \in Keys : IsMatch(Compile(res.arg), db.table.entries[c].code)}
           /\ Len(out) = Cardinality(Range(out))
           /\ \A i, j \in 1..Len(out) :
                  i < j => db.table.entries[out[i]].order <= db.table.entries[out[j]].order

\* a result of two entries of different order that the HashMap iterates the
\* other way round
C4_Witness ==
    /\ res.op = "get_characters"
    /\ Len(res.ret.out) = 2
    /\ db.table.entries[res.ret.out[1]].order < db.table.entries[res.ret.out[2]].order
    /\ db.iter = <<res.ret.out[2], res.ret.out[1]>>

\* a pattern that matches no entry of a table that is not empty
C4_WitnessEmpty ==
    /\ res.op = "get_characters"
    /\ Keys # {}
    /\ res.ret = [err |-> FALSE, out |-> <<>>]

\* the last entry of the char in the sequence
LastOf(E, c) ==
    E[CHOOSE i \in 1..Len(E) :
        E[i].traditional = c /\ \A j \in 1..Len(E) : E[j].traditional = c => j <= i]

\* C5: get_code of a char of the table is the v3 field of its entry in a
\* table built with V3 and the v5 field in one built with V5, it is None
\* exactly for the chars that are no key, and it stays so after every query
C5_VersionBinding ==
    Built =>
        /\ \A c \in CharPool :
              /\ GetCode(db.table, c) = None <=> c \notin Keys
              /\ c \in Keys =>
                    /\ call.version = "V3" =>
                          GetCode(db.table, c) = Some(db.table.entries[c].v3)
                    /\ call.version = "V5" =>
                          GetCode(db.table, c) = Some(db.table.entries[c].v5)
        /\ db.table.version = call.version
        /\ res.op = "get_code" => res.ret = GetCode(db.table, res.arg)

\* get_code on a table built with V5, of a char whose v3 and v5 differ
C5_Witness ==
    /\ Built
    /\ call.version = "V5"
    /\ res.op = "get_code"
    /\ res.arg \in Keys
    /\ db.table.entries[res.arg].v3 # db.table.entries[res.arg].v5
    /\ res.ret = Some(db.table.entries[res.arg].v5)

\* the line is malformed as the claim reads it
Malformed(line) ==
    LET fields == Split(line, " ")
    IN  \/ Len(fields) # 15
        \/ fields[1] = <<>>
        \/ fields[2] = <<>>
        \/ ~ParseI32(fields[15]).ok

\* C6: the build from text fails when a line that is not skipped has not
\* exactly 15 fields, an empty char field or an order that is no integer, and
\* every line of a text it accepts has exactly 15 fields
C6_MalformedLineRejected ==
    (src.kind = "txt" /\ db.state # "none")
    => LET lines == SelectSeq(Split(src.bytes, "\n"), LAMBDA l : ~Skipped(l))
       IN  (\E i \in 1..Len(lines) : Malformed(lines[i])) <=> db.state = "panic"

\* C7: get_chars_mult given a pattern that does not compile returns an error
\* and no mapping, before it has examined an entry; given valid patterns only
\* it returns no error
C7_FailFastBatch ==
    res.op = "get_chars_mult" =>
        IF \E i \in 1..Len(res.arg) : ~Compile(res.arg[i]).ok
        THEN /\ res.ret.err
             /\ DOMAIN res.ret.out = {}
             /\ res.ret.examined = 0
        ELSE ~res.ret.err

\* a batch of a pattern that matches an entry and one that does not compile
C7_Witness ==
    /\ res.op = "get_chars_mult"
    /\ res.arg = << <<"*">>, <<"(">> >>
    /\ \E c \in Keys : IsMatch(Compile(<<"*">>), db.table.entries[c].code)
    /\ res.ret.err

\* the entries (full records) of a built table
EntrySet(t) == Range(t.entries)

\* the table the same text and version give with CongkitFilter::all()
BuiltWithAll == FromTxt(src.bytes, call.version, FilterAll).table

\* C8 as stated: the entries of the table built with all() include the
\* entries of the table built from the same text with any filter
C8_FilterMonotone ==
    (Built /\ Idle /\ src.kind = "txt") => EntrySet(db.table) \subseteq EntrySet(BuiltWithAll)

\* no two lines that have a flag set share their traditional char
NoSharedChar ==
    LET E == ToEntries(src.bytes, FilterAll).entries
    IN  \A i, j \in 1..Len(E) : E[i].traditional = E[j].traditional => i = j

\* C8 amended: the keys of the table built with all() include the keys of the
\* table built with any filter, and so do its entries when no two lines that
\* have a flag set share their traditional char.  (Stated of the tables seen
\* between two calls: Return keeps the table, so these are all the tables.)
C8_FilterMonotoneNoShared ==
    (Built /\ Idle /\ src.kind = "txt") =>
        /\ Keys \subseteq DOMAIN BuiltWithAll.entries
        /\ NoSharedChar => EntrySet(db.table) \subseteq EntrySet(BuiltWithAll)

\* a table of one entry built with chinese() from a text of two lines of
\* different chars that all() both admits
C8_Witness ==
    /\ Built
    /\ Idle
    /\ src.kind = "txt"
    /\ call.filter = FilterChinese
    /\ NoSharedChar
    /\ Cardinality(Keys) = 1
    /\ Cardinality(DOMAIN BuiltWithAll.entries) = 2

Letters == {"a", "b", "c", "d", "e", "f", "g", "h", "i", "j", "k", "l", "m",
            "n", "o", "p", "q", "r", "s", "t", "u", "v", "w", "x", "y"}

\* the mapping of Default for CongkitDB holds 25 pairs of 25 radicals and
\* the 25 letters a to y; get_radical(k) is r iff get_key(r) is k; both are
\* None for a symbol that is none of these
DefaultRadicalsBijective ==
    LET m      == DefaultDB.radicals
        rads   == {p[1] : p \in m}
        keys   == Letters \cup KeyPool \cup RadicalPool
        glyphs == rads \cup KeyPool \cup RadicalPool
    IN  /\ Cardinality(m) = 25
        /\ Cardinality(rads) = 25
        /\ {p[2] : p \in m} = Letters
        /\ \A k \in keys, r \in glyphs :
               GetRadical(DefaultDB, k) = Some(r) <=> GetKey(DefaultDB, r) = Some(k)
        /\ \A k \in Letters : GetRadical(DefaultDB, k) # None
        /\ \A r \in rads : GetKey(DefaultDB, r) # None
        /\ \A k \in keys \ Letters : GetRadical(DefaultDB, k) = None
        /\ \A r \in glyphs \ rads : GetKey(DefaultDB, r) = None

\* C9: every built table, whatever its source, version and filter, holds
\* the radical mapping of Default for CongkitDB, which is a bijection of 25
\* radicals and the letters a to y, and get_radical and get_key answer by it
C9_RadicalBijection ==
    Built =>
        /\ db.table.radicals = DefaultDB.radicals
        /\ DefaultRadicalsBijective
        /\ res.op = "get_radical" => res.ret = GetRadical(DefaultDB, res.arg)
        /\ res.op = "get_key" => res.ret = GetKey(DefaultDB, res.arg)

\* get_radical of the letter z, which is no key
C9_Witness ==
    /\ res.op = "get_radical"
    /\ res.arg = "z"
    /\ res.ret = None
    /\ GetRadical(db.table, "y") = Some("U535C")
    /\ GetKey(db.table, "U535C") = Some("y")

\* C10: a built table holds one entry per traditional char of the retained
\* entries, the last of that char in the sequence, and get_code returns the
\* code of that last entry.  (Stated of the tables seen between two calls:
\* Return keeps the table, so these are all the tables.)
C10_LastWins ==
    (Built /\ Idle) =>
        LET E == Retained
        IN  /\ Keys = {E[i].traditional : i \in 1..Len(E)}
            /\ \A c \in Keys :
                  LET last == LastOf(E, c)
                      code == IF call.version = "V3" THEN last.v3 ELSE last.v5
                  IN  /\ db.table.entries[c] = [last EXCEPT !.code = code]
                      /\ GetCode(db.table, c) = Some(code)

\* a table built from two retained entries of the same char that differ
C10_Witness ==
    /\ Built
    /\ Idle
    /\ Len(Retained) = 2
    /\ Retained[1].traditional = Retained[2].traditional
    /\ Retained[1] # Retained[2]
    /\ Cardinality(Keys) = 1

====
